---- MODULE Spec2Model ----
(***************************************************************************)
(* A model of the wishub-skill server: the skill invocation route          *)
(* (routes/skill_invoke.py), the Docker sandbox runtime (runtime.py), the  *)
(* workflow orchestration route (routes/skill_orchestration.py) and the    *)
(* registration route (routes/skill_register.py) with the artifact store   *)
(* (storage.py).                                                           *)
(*                                                                         *)
(* Several state machines share the module.  SpecInvoke drives             *)
(* invoke_skill, execute_skill and get_task_status; SpecOrch drives        *)
(* orchestrate_skills (SpecOrchTimed: against the clock); SpecResolve      *)
(* drives one _execute_step with its _resolve_inputs; SpecRegistry drives  *)
(* register_skill and delete_skill; SpecDag drives orchestrate_skills in   *)
(* hybrid mode on longer workflows.  Each leaves the others' variables at  *)
(* their initial values.                                                   *)
(***************************************************************************)
EXTENDS Naturals, Integers, Sequences, FiniteSets, TLC

(***************************************************************************)
(* Bounds of the model.                                                    *)
(***************************************************************************)
\* number of invoke requests (task ids generated by uuid4) in one behaviour
MaxTasks == 1
\* longest run of a container, in clock units
MaxDur == 2
\* largest request timeout, in clock units (the API allows 1..300)
MaxTimeout == 2
\* longest workflow (number of steps of a definition)
MaxSteps == 3
\* longest deque of _execute_dag the model follows
MaxQueue == 3
\* longest input string handed to _resolve_inputs, in tokens
MaxLen == 2
\* the steps of the workflows the hybrid scheduler is run on alone
MaxDagSteps == 4

(***************************************************************************)
(* The skill catalogue (table skills) as invoke_skill and execute_skill    *)
(* find it: fixed while they run.                                          *)
(***************************************************************************)
Languages == {"python", "typescript", "go", "java", "rust"}

\* skill_id -> the columns of the row the model reads (database.py:60-65)
Catalog == [py |-> [language |-> "python", timeout |-> 1],
            jv |-> [language |-> "java", timeout |-> MaxTimeout]]

EveryIdRegistered == DOMAIN Catalog \cup {"nosuch"}

\* the skill_ids for which the query of skill_invoke.py:64-67 finds a row
Registered == DOMAIN Catalog

SkillIds == Registered \cup {"nosuch"}

Terminal == {"success", "error", "timeout"}

TaskIds == 1..MaxTasks

VARIABLES
    \* ---- invoke_skill / execute_skill / get_task_status ----
    now,        \* datetime.utcnow(): clock units since the request being
                \* handled arrived, plus 1
    pc,         \* pc[t]: where the handler of request t stands
    req,        \* req[t]: the SkillInvokeRequest
    start_time, \* start_time[t] (skill_invoke.py:60)
    execution,  \* execution[t]: the SkillExecution object held by the handler
    sessionOk,  \* sessionOk[t]: the request's AsyncSession can still commit
    rows,       \* rows[t]: the row of table skill_executions with task_id t
    response,   \* response[t]: the SkillInvokeResponse returned
    result,     \* result[t]: what execute_skill returned to the handler
    run,        \* run[t]: facts about the sandbox invocation made for t
    containers, \* names of the containers the Docker engine holds
    seen,       \* seen[t]: the status get_task_status(t) answered last
    \* ---- orchestrate_skills ----
    wf,         \* the request: steps, execution_mode
    opc,        \* where orchestrate_skills stands
    results,    \* the results dict of _execute_workflow / _execute_dag
    queue,      \* the deque of _execute_dag
    completed,  \* the set completed of _execute_dag
    batch,      \* tasks: the steps (indices) whose coroutines gather() awaits
    out,        \* out[k]: state or outcome of the coroutine batch[k]
    one,        \* the step awaited alone (sequential loop, parallel fallback)
    pos,        \* index of the step the sequential / parallel loop is at
    started,    \* started[i]: what step i found when it was last started
    fin,        \* the steps (indices) that have run to completion
    oresp,      \* the SkillOrchestrationResponse returned
    wfexec,     \* the workflow_executions row
    sandbox,    \* whether runtime_engine.execute_skill was called by a step
    workflows,  \* the rows of table workflows
    executions, \* the rows of workflow_executions that earlier calls wrote
    \* ---- _execute_step / _resolve_inputs ----
    rpc,        \* where _execute_step stands
    rin,        \* step.inputs
    rctx,       \* context: step_id -> outcome of the step
    rout,       \* resolved_inputs (line 318)
    rres,       \* the status of the dict _execute_step returns
    \* ---- register_skill / delete_skill and the rows they touch ----
    gpc,        \* gpc[p]: where the register_skill call of client p stands
    greq,       \* greq[p]: the SkillRegistrationRequest
    gresp,      \* gresp[p]: the SkillRegistrationResponse returned
    gup,        \* gup[p]: the call's upload has written the artifact
    skill,      \* the row of table skills with the skill_id
    versions,   \* the rows of table skill_versions of the skill_id
    artifacts,  \* artifacts[v]: the object <skill_id>/<v>/skill.py in MinIO
    taskRows,   \* task_ids of the rows of skill_executions of the skill_id
    taskEver,   \* task_ids of the rows ever created
    wfRows,     \* execution_ids of the rows of workflow_executions
    wfEver,     \* execution_ids of the rows ever created
    dpc,        \* where the delete_skill call stands
    dver,       \* skill.version held by delete_skill
    dresp,      \* what delete_skill answered
    gseen       \* what get_task_status / get_workflow_status answered last

ivars == <<now, pc, req, start_time, execution, sessionOk, rows, response,
           result, run, containers, seen>>

ovars == <<wf, opc, results, queue, completed, batch, out, one, pos, started,
           fin, oresp, wfexec, sandbox, workflows, executions>>

rvars == <<rpc, rin, rctx, rout, rres>>

gvars == <<gpc, greq, gresp, gup, skill, versions, artifacts, taskRows,
           taskEver, wfRows, wfEver, dpc, dver, dresp, gseen>>

vars == <<ivars, ovars, rvars, gvars>>

(***************************************************************************)
(* Values.  A timestamp is a clock value >= 1; 0 stands for NULL / None.   *)
(***************************************************************************)
NoRequest == [skill_id |-> "nosuch", is_async |-> FALSE, timeout |-> 1]

\* the name execution before line 86 binds it
Unbound == [status |-> "unbound", started_at |-> 0, completed_at |-> 0]

\* no row with this task_id in skill_executions
NoRow == [status |-> "none", started_at |-> 0, completed_at |-> 0]

\* execution_time is <<>> for None, <<x>> for the value x
NoResponse == [status |-> "none", task_id |-> 0, code |-> "none",
               execution_time |-> <<>>]

NoResult == [status |-> "none", container_id |-> 0]

NoRun == [called |-> FALSE, timeout |-> 0, duration |-> 0,
          created |-> FALSE, returned |-> FALSE]

Timeouts == 1..MaxTimeout

Durations == 1..MaxDur

(***************************************************************************)
(* AsyncSession.commit().  A commit either writes the session's pending    *)
(* changes or raises.  After a commit has raised, the session's            *)
(* transaction is rolled back and inactive: every later commit on the same *)
(* session raises until Session.rollback() is called, and invoke_skill     *)
(* never calls rollback (register_skill does, skill_register.py:165).      *)
(* CommitOutcomes(ok) is the set of outcomes of a commit on a session      *)
(* whose transaction is usable (ok) or not: TRUE = committed.              *)
(***************************************************************************)
CommitOutcomesAfterRollback(ok) == {TRUE, FALSE}

CommitOutcomes(ok) == IF ok THEN {TRUE, FALSE} ELSE {FALSE}

(***************************************************************************)
(* The assignments invoke_skill makes to the SkillExecution object.        *)
(***************************************************************************)
NewExecutionStarted ==
    [status |-> "pending", started_at |-> 1, completed_at |-> 0]

\* skill_invoke.py:86-92
NewExecution == [status |-> "pending", started_at |-> 0, completed_at |-> 0]

MarkRunningForgotten(e, t) == e

\* skill_invoke.py:110-111
MarkRunning(e, t) == [e EXCEPT !.status = "running", !.started_at = t]

MarkResultNoCompletion(e, r, t) ==
    [e EXCEPT !.status = IF r.status = "success" THEN "success"
                         ELSE IF r.status = "timeout" THEN "timeout"
                         ELSE "error"]

\* skill_invoke.py:127-137
MarkResult(e, r, t) ==
    [e EXCEPT !.status = IF r.status = "success" THEN "success"
                         ELSE IF r.status = "timeout" THEN "timeout"
                         ELSE "error",
              !.completed_at = t]

\* skill_invoke.py:155-157 and 174-176
MarkError(e, t) == [e EXCEPT !.status = "error", !.completed_at = t]

\* skill_invoke.py:119: request.timeout or skill.timeout
InvokeTimeout(r) ==
    IF r.timeout # 0 THEN r.timeout ELSE Catalog[r.skill_id].timeout

(***************************************************************************)
(* runtime.py                                                              *)
(***************************************************************************)
\* _build_command returns a command for these and raises ValueError otherwise
Buildable == {"python", "typescript", "go"}

\* language_images (runtime.py:27-33)
HasImage == {"python", "typescript", "go", "java", "rust"}

ExecuteSkillResultNoCatchAll(exc) ==
    CASE exc = "none" -> "success"
      [] exc = "ContainerError" -> "error"
      [] exc = "TimeoutError" -> "timeout"
      [] OTHER -> "raised"

\* the except clauses of execute_skill: the status returned when the body
\* raised exc ("none": it returned normally)
ExecuteSkillResult(exc) ==
    CASE exc = "none" -> "success"
      [] exc = "ContainerError" -> "error"
      [] exc = "TimeoutError" -> "timeout"
      [] OTHER -> "error"

\* what the steps of execute_skill can raise: nothing in it raises
\* asyncio.TimeoutError (to_thread is awaited without wait_for, and
\* _run_container never reads its timeout argument)
Raised == {"none", "ContainerError", "Exception"}

RemoveContainerWrongName(cs, name) == cs

\* containers.get(container_name).remove(force=True); NotFound is swallowed
RemoveContainer(cs, name) == cs \ {name}

(***************************************************************************)
(* invoke_skill, one request t at a time.  Requests share no state but the *)
(* table, whose rows are keyed by the request's own uuid, and the engine,  *)
(* whose containers are named by the invocation's own uuid.                *)
(***************************************************************************)
Turn(t) == \A u \in TaskIds : u < t => pc[u] = "done"

\* lines 59-60
InvokeStart(t) ==
    /\ pc[t] = "new"
    /\ Turn(t)
    /\ \E s \in SkillIds, a \in BOOLEAN, to \in Timeouts :
          req' = [req EXCEPT ![t] = [skill_id |-> s, is_async |-> a,
                                     timeout |-> to]]
    /\ now' = 1
    /\ start_time' = [start_time EXCEPT ![t] = now']
    /\ pc' = [pc EXCEPT ![t] = "lookup"]
    /\ UNCHANGED <<execution, sessionOk, rows, response, result, run,
                   containers, seen, ovars, rvars, gvars>>

\* lines 64-78: the query takes d clock units and may raise
LookupSkill(t) ==
    /\ pc[t] = "lookup"
    /\ \E d \in {0, 1} : now' = now + d
    /\ \E raised \in BOOLEAN :
          IF raised
          THEN /\ pc' = [pc EXCEPT ![t] = "outer_except"]
               /\ UNCHANGED response
          ELSE IF req[t].skill_id \notin Registered
          THEN /\ response' = [response EXCEPT ![t] =
                      [status |-> "error", task_id |-> 0,
                       code |-> "SKILL_001", execution_time |-> <<>>]]
               /\ pc' = [pc EXCEPT ![t] = "return"]
          ELSE /\ pc' = [pc EXCEPT ![t] = "create"]
               /\ UNCHANGED response
    /\ UNCHANGED <<req, start_time, execution, sessionOk, rows, result, run,
                   containers, seen, ovars, rvars, gvars>>

\* lines 86-94
CreateExecution(t) ==
    /\ pc[t] = "create"
    /\ execution' = [execution EXCEPT ![t] = NewExecution]
    /\ \E ok \in CommitOutcomes(sessionOk[t]) :
          IF ok
          THEN /\ rows' = [rows EXCEPT ![t] = execution'[t]]
               /\ pc' = [pc EXCEPT ![t] = "dispatch"]
               /\ UNCHANGED sessionOk
          ELSE /\ sessionOk' = [sessionOk EXCEPT ![t] = FALSE]
               /\ pc' = [pc EXCEPT ![t] = "outer_except"]
               /\ UNCHANGED rows
    /\ UNCHANGED <<now, req, start_time, response, result, run, containers,
                   seen, ovars, rvars, gvars>>

\* lines 97-104: nothing is scheduled, the handler only answers
ReturnPending(t) ==
    /\ pc[t] = "dispatch"
    /\ req[t].is_async
    /\ response' = [response EXCEPT ![t] =
          [status |-> "pending", task_id |-> t, code |-> "none",
           execution_time |-> <<>>]]
    /\ pc' = [pc EXCEPT ![t] = "return"]
    /\ UNCHANGED <<now, req, start_time, execution, sessionOk, rows, result,
                   run, containers, seen, ovars, rvars, gvars>>

\* lines 110-112
SetRunning(t) ==
    /\ pc[t] = "dispatch"
    /\ ~req[t].is_async
    /\ execution' = [execution EXCEPT ![t] = MarkRunning(execution[t], now)]
    /\ \E ok \in CommitOutcomes(sessionOk[t]) :
          IF ok
          THEN /\ rows' = [rows EXCEPT ![t] = execution'[t]]
               /\ pc' = [pc EXCEPT ![t] = "execute"]
               /\ UNCHANGED sessionOk
          ELSE /\ sessionOk' = [sessionOk EXCEPT ![t] = FALSE]
               /\ pc' = [pc EXCEPT ![t] = "outer_except"]
               /\ UNCHANGED rows
    /\ UNCHANGED <<now, req, start_time, response, result, run, containers,
                   seen, ovars, rvars, gvars>>

\* runtime.py:52-70: name the container, build the command, find the image
ExecuteSkill(t) ==
    /\ pc[t] = "execute"
    /\ run' = [run EXCEPT ![t] = [NoRun EXCEPT !.called = TRUE,
                                      !.timeout = InvokeTimeout(req[t])]]
    /\ LET lang == Catalog[req[t].skill_id].language
       IN  IF lang \in Buildable /\ lang \in HasImage
           THEN /\ pc' = [pc EXCEPT ![t] = "to_thread"]
                /\ UNCHANGED result
           ELSE /\ result' = [result EXCEPT ![t] =
                       [status |-> ExecuteSkillResult("ValueError"),
                        container_id |-> 0]]
                /\ pc' = [pc EXCEPT ![t] = "exec_finally"]
    /\ UNCHANGED <<now, req, start_time, execution, sessionOk, rows, response,
                   containers, seen, ovars, rvars, gvars>>

\* runtime.py:199-220, 230-236: the image cannot be pulled or the container
\* cannot be created; the finally clause finds no container
RunContainerFail(t) ==
    /\ pc[t] = "to_thread"
    /\ containers' = RemoveContainer(containers, t)
    /\ result' = [result EXCEPT ![t] =
          [status |-> ExecuteSkillResult("Exception"), container_id |-> 0]]
    /\ pc' = [pc EXCEPT ![t] = "exec_finally"]
    /\ UNCHANGED <<now, req, start_time, execution, sessionOk, rows, response,
                   run, seen, ovars, rvars, gvars>>

\* runtime.py:208-220: containers.run creates and starts the container
RunContainerStart(t) ==
    /\ pc[t] = "to_thread"
    /\ containers' = containers \cup {t}
    /\ run' = [run EXCEPT ![t].created = TRUE]
    /\ pc' = [pc EXCEPT ![t] = "container"]
    /\ UNCHANGED <<now, req, start_time, execution, sessionOk, rows, response,
                   result, seen, ovars, rvars, gvars>>

\* runtime.py:208-236: containers.run(detach=False) blocks until the
\* container exits, d clock units later, whatever the timeout; a non-zero
\* exit code raises ContainerError, logs() may raise; finally the container
\* is removed
RunContainerExit(t) ==
    /\ pc[t] = "container"
    /\ \E d \in Durations, exc \in Raised :
          /\ now' = now + d
          /\ run' = [run EXCEPT ![t].duration = d]
          /\ result' = [result EXCEPT ![t] =
                [status |-> ExecuteSkillResult(exc),
                 container_id |-> IF exc = "none" THEN t ELSE 0]]
    /\ containers' = RemoveContainer(containers, t)
    /\ pc' = [pc EXCEPT ![t] = "exec_finally"]
    /\ UNCHANGED <<req, start_time, execution, sessionOk, rows, response,
                   seen, ovars, rvars, gvars>>

\* runtime.py:115-117: the finally clause of execute_skill, then it returns
ExecuteSkillFinally(t) ==
    /\ pc[t] = "exec_finally"
    /\ containers' = RemoveContainer(containers, t)
    /\ run' = [run EXCEPT ![t].returned = TRUE]
    /\ pc' = [pc EXCEPT ![t] = "record"]
    /\ UNCHANGED <<now, req, start_time, execution, sessionOk, rows, response,
                   result, seen, ovars, rvars, gvars>>

\* skill_invoke.py:122-150
RecordResult(t) ==
    /\ pc[t] = "record"
    /\ execution' = [execution EXCEPT ![t] =
                        MarkResult(execution[t], result[t], now)]
    /\ \E ok \in CommitOutcomes(sessionOk[t]) :
          IF ok
          THEN /\ rows' = [rows EXCEPT ![t] = execution'[t]]
               /\ response' = [response EXCEPT ![t] =
                     [status |-> result[t].status, task_id |-> t,
                      code |-> "none",
                      execution_time |-> <<now - start_time[t]>>]]
               /\ pc' = [pc EXCEPT ![t] = "return"]
               /\ UNCHANGED sessionOk
          ELSE /\ sessionOk' = [sessionOk EXCEPT ![t] = FALSE]
               /\ pc' = [pc EXCEPT ![t] = "inner_except"]
               /\ UNCHANGED <<rows, response>>
    /\ UNCHANGED <<now, req, start_time, result, run, containers, seen,
                   ovars, rvars, gvars>>

\* skill_invoke.py:152-167
InnerExcept(t) ==
    /\ pc[t] = "inner_except"
    /\ execution' = [execution EXCEPT ![t] = MarkError(execution[t], now)]
    /\ \E ok \in CommitOutcomes(sessionOk[t]) :
          IF ok
          THEN /\ rows' = [rows EXCEPT ![t] = execution'[t]]
               /\ response' = [response EXCEPT ![t] =
                     [status |-> "error", task_id |-> t,
                      code |-> "SKILL_002", execution_time |-> <<>>]]
               /\ pc' = [pc EXCEPT ![t] = "return"]
               /\ UNCHANGED sessionOk
          ELSE /\ sessionOk' = [sessionOk EXCEPT ![t] = FALSE]
               /\ pc' = [pc EXCEPT ![t] = "outer_except"]
               /\ UNCHANGED <<rows, response>>
    /\ UNCHANGED <<now, req, start_time, result, run, containers, seen,
                   ovars, rvars, gvars>>

\* skill_invoke.py:169-188: with execution unbound line 174 raises NameError,
\* which the bare except swallows like a failed commit
OuterExcept(t) ==
    /\ pc[t] = "outer_except"
    /\ IF execution[t].status = "unbound"
       THEN UNCHANGED <<execution, rows, sessionOk>>
       ELSE /\ execution' = [execution EXCEPT ![t] =
                                MarkError(execution[t], now)]
            /\ \E ok \in CommitOutcomes(sessionOk[t]) :
                  IF ok
                  THEN /\ rows' = [rows EXCEPT ![t] = execution'[t]]
                       /\ UNCHANGED sessionOk
                  ELSE /\ sessionOk' = [sessionOk EXCEPT ![t] = FALSE]
                       /\ UNCHANGED rows
    /\ response' = [response EXCEPT ![t] =
          [status |-> "error", task_id |-> t, code |-> "SKILL_999",
           execution_time |-> <<>>]]
    /\ pc' = [pc EXCEPT ![t] = "return"]
    /\ UNCHANGED <<now, req, start_time, result, run, containers, seen,
                   ovars, rvars, gvars>>

\* database.py:36-42: get_db commits once more when the handler has returned;
\* a failure is ignored
InvokeReturn(t) ==
    /\ pc[t] = "return"
    /\ \E ok \in CommitOutcomes(sessionOk[t]) :
          IF ok /\ rows[t].status # "none"
          THEN rows' = [rows EXCEPT ![t] = execution[t]]
          ELSE UNCHANGED rows
    /\ pc' = [pc EXCEPT ![t] = "done"]
    /\ UNCHANGED <<now, req, start_time, execution, sessionOk, response,
                   result, run, containers, seen, ovars, rvars, gvars>>

\* skill_invoke.py:216-219: the execution_time get_task_status answers for a
\* row (<<>> for None)
TaskExecutionTime(row) ==
    IF row.completed_at # 0 /\ row.started_at # 0
    THEN <<row.completed_at - row.started_at>>
    ELSE <<>>

\* skill_invoke.py:203-227: a client polls task t and is answered the row's
\* status (404 without a row)
GetTask(t) ==
    /\ rows[t].status # "none"
    /\ seen' = [seen EXCEPT ![t] = rows[t].status]
    /\ UNCHANGED <<now, pc, req, start_time, execution, sessionOk, rows,
                   response, result, run, containers, ovars, rvars, gvars>>

Handler(t) ==
    \/ LookupSkill(t)
    \/ CreateExecution(t)
    \/ ReturnPending(t)
    \/ SetRunning(t)
    \/ ExecuteSkill(t)
    \/ RunContainerFail(t)
    \/ RunContainerStart(t)
    \/ RunContainerExit(t)
    \/ ExecuteSkillFinally(t)
    \/ RecordResult(t)
    \/ InnerExcept(t)
    \/ OuterExcept(t)
    \/ InvokeReturn(t)

InitInvokeVars ==
    /\ now = 1
    /\ pc = [t \in TaskIds |-> "new"]
    /\ req = [t \in TaskIds |-> NoRequest]
    /\ start_time = [t \in TaskIds |-> 0]
    /\ execution = [t \in TaskIds |-> Unbound]
    /\ sessionOk = [t \in TaskIds |-> TRUE]
    /\ rows = [t \in TaskIds |-> NoRow]
    /\ response = [t \in TaskIds |-> NoResponse]
    /\ result = [t \in TaskIds |-> NoResult]
    /\ run = [t \in TaskIds |-> NoRun]
    /\ containers = {}
    /\ seen = [t \in TaskIds |-> "none"]

(***************************************************************************)
(* Workflows.  A step is [step_id, depends_on]; depends_on is a list of    *)
(* names.  Nothing in the request model (protocol/models.py:232-256) or in *)
(* orchestrate_skills rejects a list with two steps of the same step_id,   *)
(* or a depends_on naming a step the list does not hold, so such lists are *)
(* inputs too.                                                             *)
(***************************************************************************)
StepIds == {"a", "b", "c"}

DepLists == {<<>>, <<"a">>, <<"b">>, <<"a", "b">>, <<"a", "a">>}

StepRecs == [step_id : StepIds, depends_on : DepLists]

StepLists == UNION {[1..n -> StepRecs] : n \in 0..MaxSteps}

Modes == {"sequential", "parallel", "hybrid"}

Range(f) == {f[i] : i \in DOMAIN f}

Ids(steps) == {steps[i].step_id : i \in DOMAIN steps}

(***************************************************************************)
(* _check_cyclic_dependencies (skill_orchestration.py:372-408)             *)
(***************************************************************************)
\* line 383: a dict comprehension, so of two steps with one step_id the
\* later one's depends_on is kept
Graph(steps) ==
    [id \in Ids(steps) |->
        LET last == CHOOSE i \in DOMAIN steps :
                        /\ steps[i].step_id = id
                        /\ \A j \in DOMAIN steps :
                              steps[j].step_id = id => j <= i
        IN  steps[last].depends_on]

\* the keys of the dict in iteration order: first insertion
RECURSIVE KeyOrder(_, _)
KeyOrder(steps, i) ==
    IF i > Len(steps) THEN <<>>
    ELSE LET rest == KeyOrder(steps, i + 1)
             id == steps[i].step_id
         IN  IF \E j \in 1..(i - 1) : steps[j].step_id = id
             THEN rest
             ELSE <<id>> \o rest

Neighbors(g, node) == IF node \in DOMAIN g THEN g[node] ELSE <<>>

\* lines 386-398; st = [found, visited, rec_stack]
RECURSIVE Visit(_, _, _)
RECURSIVE VisitNeighbors(_, _, _, _)
Visit(g, node, st) ==
    LET entered == [st EXCEPT !.visited = @ \cup {node},
                              !.rec_stack = @ \cup {node}]
        r == VisitNeighbors(g, Neighbors(g, node), 1, entered)
    IN  IF r.found THEN r ELSE [r EXCEPT !.rec_stack = @ \ {node}]

VisitNeighborsAnyVisited(g, nbrs, k, st) ==
    IF k > Len(nbrs) THEN st
    ELSE IF nbrs[k] \notin st.visited
         THEN LET r == Visit(g, nbrs[k], st)
              IN  IF r.found THEN r ELSE VisitNeighbors(g, nbrs, k + 1, r)
         ELSE [st EXCEPT !.found = TRUE]

VisitNeighbors(g, nbrs, k, st) ==
    IF k > Len(nbrs) THEN st
    ELSE IF nbrs[k] \notin st.visited
         THEN LET r == Visit(g, nbrs[k], st)
              IN  IF r.found THEN r ELSE VisitNeighbors(g, nbrs, k + 1, r)
         ELSE IF nbrs[k] \in st.rec_stack
              THEN [st EXCEPT !.found = TRUE]
              ELSE VisitNeighbors(g, nbrs, k + 1, st)

\* lines 400-408
RECURSIVE VisitAll(_, _, _, _)
VisitAll(g, order, k, st) ==
    IF k > Len(order) THEN st
    ELSE IF order[k] \notin st.visited
         THEN LET r == Visit(g, order[k], st)
              IN  IF r.found THEN r ELSE VisitAll(g, order, k + 1, r)
         ELSE VisitAll(g, order, k + 1, st)

CheckCyclicDependencies(steps) ==
    VisitAll(Graph(steps), KeyOrder(steps, 1), 1,
             [found |-> FALSE, visited |-> {}, rec_stack |-> {}]).found

(***************************************************************************)
(* _execute_step (skill_orchestration.py:291-334).  A step ends with a     *)
(* status; called tells whether it reached runtime_engine.execute_skill    *)
(* (it does not when the skill lookup raises or finds nothing: the except  *)
(* clause of line 329 turns both into status error).                       *)
(***************************************************************************)
StepOutcomes ==
    {[status |-> ExecuteSkillResult(e), called |-> TRUE] : e \in Raised}
        \cup {[status |-> "error", called |-> FALSE]}

NoResults == [id \in StepIds |-> "none"]

\* again: the step's coroutine has been started more than once
NotStarted ==
    [ran |-> FALSE, before |-> {}, ctx |-> NoResults, at |-> 0,
     again |-> FALSE]

NoOne == [i |-> 0, out |-> "none"]

\* details is error.details, the text of the exception that was answered
NoOrchResponse == [status |-> "none", code |-> "none", execution_id |-> FALSE,
                   results |-> NoResults, details |-> "none"]

Deps(i) == wf.steps[i].depends_on

StepId(i) == wf.steps[i].step_id

NSteps == Len(wf.steps)

SeqContextFresh(res) == NoResults

\* the dict handed to _execute_step as context is the results dict itself
\* (lines 194, 205, 209, 270)
Context(res) == res

\* what a step finds when its coroutine starts running, and when (at)
Start(st, i) ==
    [st EXCEPT ![i] = [ran |-> TRUE, before |-> fin, ctx |-> Context(results),
                       at |-> now, again |-> st[i].ran]]

RECURSIVE StartAll(_, _, _)
StartAll(st, b, k) ==
    IF k > Len(b) THEN st
    ELSE StartAll([st EXCEPT ![b[k]] = [ran |-> TRUE, before |-> fin,
                                        ctx |-> Context(results),
                                        at |-> now,
                                        again |-> st[b[k]].ran]],
                  b, k + 1)

(***************************************************************************)
(* _execute_dag (lines 227-288)                                            *)
(***************************************************************************)
\* dependency_map[id] (lines 248-250): the steps that list id in depends_on,
\* once per occurrence, in declaration order
RECURSIVE Occurrences(_, _, _)
Occurrences(j, deps, id) ==
    IF deps = <<>> THEN <<>>
    ELSE (IF Head(deps) = id THEN <<j>> ELSE <<>>)
             \o Occurrences(j, Tail(deps), id)

RECURSIVE DependencyMap(_, _, _)
DependencyMap(steps, id, j) ==
    IF j > Len(steps) THEN <<>>
    ELSE Occurrences(j, steps[j].depends_on, id)
             \o DependencyMap(steps, id, j + 1)

\* reverse_map[id] (line 251), keyed by step_id: the names listed by every
\* step of that step_id
ReverseMap(steps, id) ==
    UNION {Range(steps[j].depends_on) :
              j \in {x \in DOMAIN steps : steps[x].step_id = id}}

\* lines 254-257
RECURSIVE InitialQueue(_, _)
InitialQueue(steps, j) ==
    IF j > Len(steps) THEN <<>>
    ELSE (IF steps[j].depends_on = <<>> THEN <<j>> ELSE <<>>)
             \o InitialQueue(steps, j + 1)

\* lines 283-286 for one completed step; d = dependency_map[step_id]
RECURSIVE AppendReady(_, _, _, _)
AppendReady(steps, d, done, q) ==
    IF d = <<>> THEN q
    ELSE AppendReady(steps, Tail(d), done,
            IF ReverseMap(steps, steps[Head(d)].step_id) \subseteq done
            THEN Append(q, Head(d)) ELSE q)

\* lines 278-286; st = [results, completed, queue]
RECURSIVE CollectDag(_, _, _, _, _)
CollectDag(steps, b, o, k, st) ==
    IF k > Len(b) THEN st
    ELSE LET id == steps[b[k]].step_id
             done == st.completed \cup {id}
         IN  CollectDag(steps, b, o, k + 1,
                [results |-> [st.results EXCEPT ![id] = o[k]],
                 completed |-> done,
                 queue |-> AppendReady(steps, DependencyMap(steps, id, 1),
                                       done, st.queue)])

\* lines 217-218
RECURSIVE CollectParallel(_, _, _, _, _)
CollectParallel(steps, b, o, k, res) ==
    IF k > Len(b) THEN res
    ELSE CollectParallel(steps, b, o, k + 1,
                         [res EXCEPT ![steps[b[k]].step_id] = o[k]])

AllFinished == \A k \in DOMAIN out : out[k] \in Terminal

(***************************************************************************)
(* orchestrate_skills (lines 48-168)                                       *)
(***************************************************************************)
OrchValidateNoEmptyCheck ==
    /\ opc = "start"
    /\ IF CheckCyclicDependencies(wf.steps)
       THEN /\ oresp' = [NoOrchResponse EXCEPT !.status = "error",
                                               !.code = "WORKFLOW_002",
                                               !.details = "cycle"]
            /\ opc' = "done"
       ELSE /\ opc' = "persist"
            /\ UNCHANGED oresp
    /\ UNCHANGED <<wf, results, queue, completed, batch, out, one, pos,
                   started, fin, wfexec, sandbox, ivars, rvars, gvars,
                   workflows, executions>>

\* lines 69-84
OrchValidate ==
    /\ opc = "start"
    /\ IF wf.steps = <<>>
       THEN /\ oresp' = [NoOrchResponse EXCEPT !.status = "error",
                                               !.code = "WORKFLOW_999",
                                               !.details = "ValueError"]
            /\ opc' = "done"
       ELSE IF CheckCyclicDependencies(wf.steps)
       THEN /\ oresp' = [NoOrchResponse EXCEPT !.status = "error",
                                               !.code = "WORKFLOW_002",
                                               !.details = "cycle"]
            /\ opc' = "done"
       ELSE /\ opc' = "persist"
            /\ UNCHANGED oresp
    /\ UNCHANGED <<wf, results, queue, completed, batch, out, one, pos,
                   started, fin, wfexec, sandbox, ivars, rvars, gvars,
                   workflows, executions>>

\* request.workflow_id
WorkflowId == "w"

\* the row of table workflows this call adds (lines 87-94)
ThisWorkflow == [workflow_id |-> WorkflowId, definition |-> "request"]

\* the rows an earlier call with the same workflow_id left behind
EarlierWorkflow == [workflow_id |-> WorkflowId, definition |-> "earlier"]

EarlierExecution ==
    [execution_id |-> "e0", workflow_id |-> WorkflowId, status |-> "success"]

PersistOutcomesNoUnique(table) == {"ok", "workflow", "execution"}

\* database.py:154: workflow_id is unique, so the commit of line 96 raises
\* when the table holds the id; any commit may raise for other reasons
PersistOutcomes(table) ==
    IF \E r \in table : r.workflow_id = WorkflowId
    THEN {"workflow"}
    ELSE {"ok", "workflow", "execution"}

\* lines 86-106: the workflow row, then the execution row; either commit may
\* raise, which line 159 answers
OrchPersist ==
    /\ opc = "persist"
    /\ \E ok \in PersistOutcomes(workflows) :
          /\ workflows' = IF ok = "workflow"
                          THEN workflows
                          ELSE workflows \cup {ThisWorkflow}
          /\ IF ok = "ok"
             THEN /\ wfexec' = "running"
                  /\ opc' = wf.mode
                  /\ UNCHANGED oresp
             ELSE /\ oresp' = [NoOrchResponse EXCEPT !.status = "error",
                                                     !.code = "WORKFLOW_999",
                                                     !.details = "commit"]
                  /\ opc' = "done"
                  /\ UNCHANGED wfexec
    /\ UNCHANGED <<wf, results, queue, completed, batch, out, one, pos,
                   started, fin, sandbox, ivars, rvars, gvars, executions>>

\* lines 192-194 and 207-209: the loop awaits one step alone
StartOne ==
    /\ pos <= NSteps
    /\ one.i = 0
    /\ \/ opc = "sequential"
       \/ opc = "parallel" /\ Deps(pos) # <<>>
    /\ one' = [i |-> pos, out |-> "running"]
    /\ started' = Start(started, pos)
    /\ UNCHANGED <<wf, opc, results, queue, completed, batch, out, pos, fin,
                   oresp, wfexec, sandbox, ivars, rvars, gvars,
                   workflows, executions>>

\* _execute_step of the step awaited alone returns
FinishOne ==
    /\ one.out = "running"
    /\ \E o \in StepOutcomes :
          /\ one' = [one EXCEPT !.out = o.status]
          /\ sandbox' = (sandbox \/ o.called)
    /\ fin' = fin \cup {one.i}
    /\ UNCHANGED <<wf, opc, results, queue, completed, batch, out, pos,
                   started, oresp, wfexec, ivars, rvars, gvars,
                   workflows, executions>>

StoreOneAbortOnError ==
    /\ one.out \in Terminal
    /\ results' = [results EXCEPT ![StepId(one.i)] = one.out]
    /\ one' = NoOne
    /\ pos' = IF one.out = "error" THEN NSteps + 1 ELSE pos + 1
    /\ UNCHANGED <<wf, opc, queue, completed, batch, out, started, fin,
                   oresp, wfexec, sandbox, ivars, rvars, gvars,
                   workflows, executions>>

\* lines 195 and 209
StoreOne ==
    /\ one.out \in Terminal
    /\ results' = [results EXCEPT ![StepId(one.i)] = one.out]
    /\ one' = NoOne
    /\ pos' = pos + 1
    /\ UNCHANGED <<wf, opc, queue, completed, batch, out, started, fin,
                   oresp, wfexec, sandbox, ivars, rvars, gvars,
                   workflows, executions>>

ParCreateAwaited ==
    /\ opc = "parallel"
    /\ pos <= NSteps
    /\ one.i = 0
    /\ Deps(pos) = <<>>
    /\ one' = [i |-> pos, out |-> "running"]
    /\ started' = Start(started, pos)
    /\ UNCHANGED <<wf, opc, results, queue, completed, batch, out, pos, fin,
                   oresp, wfexec, sandbox, ivars, rvars, gvars,
                   workflows, executions>>

\* lines 204-206: the coroutine of a step without depends_on is created and
\* kept for gather; it does not run yet
ParCreate ==
    /\ opc = "parallel"
    /\ pos <= NSteps
    /\ one.i = 0
    /\ Deps(pos) = <<>>
    /\ batch' = Append(batch, pos)
    /\ out' = Append(out, "created")
    /\ pos' = pos + 1
    /\ UNCHANGED <<wf, opc, results, queue, completed, one, started, fin,
                   oresp, wfexec, sandbox, ivars, rvars, gvars,
                   workflows, executions>>

\* the loop of line 192 or 203 is over
LoopDone ==
    /\ opc \in {"sequential", "parallel"}
    /\ pos > NSteps
    /\ IF opc = "sequential"
       THEN /\ opc' = "finish"
            /\ UNCHANGED <<out, started>>
       ELSE /\ opc' = "gather_parallel"
            /\ out' = [k \in DOMAIN out |-> "query"]
            /\ started' = StartAll(started, batch, 1)
    /\ UNCHANGED <<wf, results, queue, completed, batch, one, pos, fin,
                   oresp, wfexec, sandbox, ivars, rvars, gvars,
                   workflows, executions>>

\* lines 241-257
DagInit ==
    /\ opc = "hybrid"
    /\ queue' = InitialQueue(wf.steps, 1)
    /\ opc' = "dag_loop"
    /\ UNCHANGED <<wf, results, completed, batch, out, one, pos, started,
                   fin, oresp, wfexec, sandbox, ivars, rvars, gvars,
                   workflows, executions>>

\* lines 261-276: the queue is drained into one gather
DagLaunch ==
    /\ opc = "dag_loop"
    /\ queue # <<>>
    /\ batch' = queue
    /\ queue' = <<>>
    /\ out' = [k \in DOMAIN queue |-> "query"]
    /\ started' = StartAll(started, queue, 1)
    /\ opc' = "gather_hybrid"
    /\ UNCHANGED <<wf, results, completed, one, pos, fin, oresp, wfexec,
                   sandbox, ivars, rvars, gvars,
                   workflows, executions>>

\* lines 307-312: gather starts its coroutines one after the other, each
\* runs up to its first await, the skill lookup on the session all of them
\* were handed (slot state "query"); here the query of slot k is answered
LookupSlot(k) ==
    /\ opc \in {"gather_parallel", "gather_hybrid"}
    /\ k \in DOMAIN out
    /\ out[k] = "query"
    /\ out' = [out EXCEPT ![k] = "running"]
    /\ UNCHANGED <<wf, opc, results, queue, completed, batch, one, pos,
                   started, fin, oresp, wfexec, sandbox, ivars, rvars, gvars,
                   workflows, executions>>

FinishSlotStoring(k) ==
    /\ opc \in {"gather_parallel", "gather_hybrid"}
    /\ k \in DOMAIN out
    /\ out[k] = "running"
    /\ \E o \in StepOutcomes :
          /\ out' = [out EXCEPT ![k] = o.status]
          /\ sandbox' = (sandbox \/ o.called)
          /\ results' = [results EXCEPT ![StepId(batch[k])] = o.status]
    /\ fin' = fin \cup {batch[k]}
    /\ UNCHANGED <<wf, opc, queue, completed, batch, one, pos, started,
                   oresp, wfexec, ivars, rvars, gvars,
                   workflows, executions>>

\* one coroutine of the gather returns
FinishSlot(k) ==
    /\ opc \in {"gather_parallel", "gather_hybrid"}
    /\ k \in DOMAIN out
    /\ out[k] = "running"
    /\ \E o \in StepOutcomes :
          /\ out' = [out EXCEPT ![k] = o.status]
          /\ sandbox' = (sandbox \/ o.called)
    /\ fin' = fin \cup {batch[k]}
    /\ UNCHANGED <<wf, opc, results, queue, completed, batch, one, pos,
                   started, oresp, wfexec, ivars, rvars, gvars,
                   workflows, executions>>

\* lines 212-218
ParCollect ==
    /\ opc = "gather_parallel"
    /\ AllFinished
    /\ results' = CollectParallel(wf.steps, batch, out, 1, results)
    /\ batch' = <<>>
    /\ out' = <<>>
    /\ opc' = "finish"
    /\ UNCHANGED <<wf, queue, completed, one, pos, started, fin, oresp,
                   wfexec, sandbox, ivars, rvars, gvars,
                   workflows, executions>>

\* lines 273-286
DagCollect ==
    /\ opc = "gather_hybrid"
    /\ AllFinished
    /\ LET st == CollectDag(wf.steps, batch, out, 1,
                    [results |-> results, completed |-> completed,
                     queue |-> queue])
       IN  /\ Len(st.queue) <= MaxQueue
           /\ results' = st.results
           /\ completed' = st.completed
           /\ queue' = st.queue
    /\ batch' = <<>>
    /\ out' = <<>>
    /\ opc' = "dag_loop"
    /\ UNCHANGED <<wf, one, pos, started, fin, oresp, wfexec, sandbox,
                   ivars, rvars, gvars,
                   workflows, executions>>

\* line 261 finds the queue empty: line 288
DagDone ==
    /\ opc = "dag_loop"
    /\ queue = <<>>
    /\ opc' = "finish"
    /\ UNCHANGED <<wf, results, queue, completed, batch, out, one, pos,
                   started, fin, oresp, wfexec, sandbox, ivars, rvars, gvars,
                   workflows, executions>>

OrchFinishStrict ==
    /\ opc = "finish"
    /\ \E ok \in CommitOutcomes(TRUE) :
          IF ok /\ \E id \in StepIds : results[id] = "error"
          THEN /\ wfexec' = "error"
               /\ oresp' = [NoOrchResponse EXCEPT !.status = "error",
                                                  !.code = "WORKFLOW_003",
                                                  !.execution_id = TRUE,
                                                  !.details = "step"]
          ELSE IF ok
          THEN /\ wfexec' = "success"
               /\ oresp' = [status |-> "success", code |-> "none",
                            execution_id |-> TRUE, results |-> results,
                               details |-> "none"]
          ELSE /\ \E again \in CommitOutcomes(FALSE) :
                     IF again
                     THEN /\ wfexec' = "error"
                          /\ oresp' = [NoOrchResponse EXCEPT
                                          !.status = "error",
                                          !.code = "WORKFLOW_003",
                                          !.execution_id = TRUE,
                                          !.details = "commit"]
                     ELSE /\ UNCHANGED wfexec
                          /\ oresp' = [NoOrchResponse EXCEPT
                                          !.status = "error",
                                          !.code = "WORKFLOW_999",
                                          !.details = "commit"]
    /\ opc' = "done"
    /\ UNCHANGED <<wf, results, queue, completed, batch, out, one, pos,
                   started, fin, sandbox, ivars, rvars, gvars,
                   workflows, executions>>

\* lines 121-157 and 159-168: the row is set to success; when that commit
\* raises, line 147 commits on the same session, raises as well and line 159
\* answers, the row still running
OrchFinish ==
    /\ opc = "finish"
    /\ \E ok \in CommitOutcomes(TRUE) :
          IF ok
          THEN /\ wfexec' = "success"
               /\ oresp' = [status |-> "success", code |-> "none",
                            execution_id |-> TRUE, results |-> results,
                               details |-> "none"]
          ELSE /\ \E again \in CommitOutcomes(FALSE) :
                     IF again
                     THEN /\ wfexec' = "error"
                          /\ oresp' = [NoOrchResponse EXCEPT
                                          !.status = "error",
                                          !.code = "WORKFLOW_003",
                                          !.execution_id = TRUE,
                                          !.details = "commit"]
                     ELSE /\ UNCHANGED wfexec
                          /\ oresp' = [NoOrchResponse EXCEPT
                                          !.status = "error",
                                          !.code = "WORKFLOW_999",
                                          !.details = "commit"]
    /\ opc' = "done"
    /\ UNCHANGED <<wf, results, queue, completed, batch, out, one, pos,
                   started, fin, sandbox, ivars, rvars, gvars,
                   workflows, executions>>

(***************************************************************************)
(* _resolve_inputs (skill_orchestration.py:337-369).                       *)
(*                                                                         *)
(* A string is a sequence of tokens: a token is a piece of plain text or a *)
(* placeholder {{step.field}}, which is what the pattern of line 353       *)
(* matches.  A value is a string, a number, a list or a map (a map is      *)
(* given by its values, the keys play no part); lists and maps of the      *)
(* model hold one element.                                                 *)
(***************************************************************************)
Text(c) == [ref |-> FALSE, step |-> "-", field |-> c]

Ref(st, f) == [ref |-> TRUE, step |-> st, field |-> f]

\* the step_ids a placeholder or the context may name
RefSteps == {"a", "b"}

\* the tokens of the input strings: plain text, references to the fields
\* execute_skill returns in outputs (runtime.py:225-228) and to one it does
\* not
InputTokens ==
    {Text("x"), Ref("a", "stdout"), Ref("a", "exit_code"), Ref("a", "nope"),
     Ref("b", "stdout")}

InputStrings == UNION {[1..n -> InputTokens] : n \in 0..MaxLen}

StrValue(str) == [kind |-> "str", s |-> str, items |-> <<>>]

NumValue == [kind |-> "num", s |-> <<>>, items |-> <<>>]

ListValue(v) == [kind |-> "list", s |-> <<>>, items |-> <<v>>]

MapValue(v) == [kind |-> "map", s |-> <<>>, items |-> <<v>>]

Leaves == {StrValue(str) : str \in InputStrings} \cup {NumValue}

Nested == {ListValue(v) : v \in Leaves} \cup {MapValue(v) : v \in Leaves}

\* step.inputs: a map (models.py:236), whose value is a string, a number, or
\* a list or a map of one
Inputs == {MapValue(v) : v \in Leaves \cup Nested}

\* an outcome in context: the dict execute_skill or _execute_step returned;
\* only a success has the key outputs, with the fields stdout and exit_code
\* (runtime.py:86-91, 225-228); status none: the step_id is not in context
NoOutcome == [status |-> "none", has_outputs |-> FALSE, stdout |-> <<>>]

FailedOutcomes ==
    {[status |-> st, has_outputs |-> FALSE, stdout |-> <<>>] :
        st \in {"error", "timeout"}}

\* what a container may have written: plain text, or the text of a
\* placeholder
Stdouts == {<<Text("v")>>, <<Ref("b", "stdout")>>}

SuccessOutcomes ==
    {[status |-> "success", has_outputs |-> TRUE, stdout |-> o] :
        o \in Stdouts}

Outcomes == {NoOutcome} \cup FailedOutcomes \cup SuccessOutcomes

Contexts == [RefSteps -> Outcomes]

\* context[step_id].get("outputs", {}) as the set of its keys (line 358)
OutputFields(o) == IF o.has_outputs THEN {"stdout", "exit_code"} ELSE {}

\* str(outputs[field]) (line 360): stdout is a string, exit_code the int 0
OutputText(o, f) == IF f = "exit_code" THEN <<Text("0")>> ELSE o.stdout

\* lines 357-359
Resolvable(ctx, tk) ==
    /\ tk.step \in DOMAIN ctx
    /\ ctx[tk.step].status # "none"
    /\ ctx[tk.step].status = "success"
    /\ tk.field \in OutputFields(ctx[tk.step])

\* re.findall (line 354): the placeholders of the string, in order
RECURSIVE Matches(_)
Matches(str) ==
    IF str = <<>> THEN <<>>
    ELSE (IF Head(str).ref THEN <<Head(str)>> ELSE <<>>) \o Matches(Tail(str))

\* value.replace(placeholder, text) (line 360): every occurrence
RECURSIVE ReplaceAll(_, _, _)
ReplaceAll(str, tk, text) ==
    IF str = <<>> THEN <<>>
    ELSE (IF Head(str) = tk THEN text ELSE <<Head(str)>>)
             \o ReplaceAll(Tail(str), tk, text)

RECURSIVE ResolveMatchesDropUnresolved(_, _, _)
ResolveMatchesDropUnresolved(str, matches, ctx) ==
    IF matches = <<>> THEN str
    ELSE LET tk == Head(matches)
         IN  ResolveMatchesDropUnresolved(
                 IF Resolvable(ctx, tk)
                 THEN ReplaceAll(str, tk, OutputText(ctx[tk.step], tk.field))
                 ELSE ReplaceAll(str, tk, <<>>),
                 Tail(matches), ctx)

\* lines 356-360: the loop over the matches found in the original string,
\* each replacement made in the string as it stands
RECURSIVE ResolveMatches(_, _, _)
ResolveMatches(str, matches, ctx) ==
    IF matches = <<>> THEN str
    ELSE LET tk == Head(matches)
         IN  ResolveMatches(
                 IF Resolvable(ctx, tk)
                 THEN ReplaceAll(str, tk, OutputText(ctx[tk.step], tk.field))
                 ELSE str,
                 Tail(matches), ctx)

\* resolve_value (lines 350-362): only a str is scanned
ResolveValue(v, ctx) ==
    IF v.kind = "str"
    THEN [v EXCEPT !.s = ResolveMatches(v.s, Matches(v.s), ctx)]
    ELSE v

\* lines 364-369
ResolveInputs(inputs, ctx) ==
    IF inputs.kind \in {"map", "list"}
    THEN [inputs EXCEPT !.items =
             [k \in DOMAIN inputs.items |-> ResolveValue(inputs.items[k], ctx)]]
    ELSE ResolveValue(inputs, ctx)

(***************************************************************************)
(* _execute_step (skill_orchestration.py:291-334), one call.               *)
(***************************************************************************)
\* resolved_inputs before line 318 has bound it
NoValue == [kind |-> "unbound", s |-> <<>>, items |-> <<>>]

\* lines 309-315: the skill is looked up; no row, or a failing query, ends
\* the step with status error (lines 329-334)
StepLookupSkill ==
    /\ rpc = "lookup"
    /\ \E found \in BOOLEAN :
          IF found
          THEN /\ rpc' = "resolve"
               /\ UNCHANGED rres
          ELSE /\ rpc' = "done"
               /\ rres' = "error"
    /\ UNCHANGED <<rin, rctx, rout, ivars, ovars, gvars>>

\* line 318
StepResolveInputs ==
    /\ rpc = "resolve"
    /\ rout' = ResolveInputs(rin, rctx)
    /\ rpc' = "execute"
    /\ UNCHANGED <<rin, rctx, rres, ivars, ovars, gvars>>

\* lines 321-327: execute_skill is called with resolved_inputs and its result
\* returned
StepExecuteSkill ==
    /\ rpc = "execute"
    /\ \E e \in Raised : rres' = ExecuteSkillResult(e)
    /\ rpc' = "done"
    /\ UNCHANGED <<rin, rctx, rout, ivars, ovars, gvars>>

InitResolveVars ==
    /\ rpc = "off"
    /\ rin = NumValue
    /\ rctx = [st \in RefSteps |-> NoOutcome]
    /\ rout = NoValue
    /\ rres = "none"

(***************************************************************************)
(* register_skill and delete_skill (routes/skill_register.py) with the     *)
(* artifact store (storage.py), and the rows of skill_executions and       *)
(* workflow_executions as the other routes create and read them.           *)
(*                                                                         *)
(* The model follows one skill_id.  Two clients register it, each call     *)
(* once, with a session of its own; delete_skill is called any number of   *)
(* times.                                                                  *)
(***************************************************************************)
Registrants == {"p", "q"}

Versions == {"v1", "v2"}

\* a SkillRegistrationRequest: version, and whether code is Base64 of UTF-8
\* text (lines 83-84)
RegRequests == [version : Versions, valid : BOOLEAN]

NoRegRequest == [version |-> "-", valid |-> FALSE]

NoRegResponse == [status |-> "none", code |-> "none"]

RegError(c) == [status |-> "error", code |-> c]

\* no row of table skills with the skill_id
NoSkill == [present |-> FALSE, version |-> "-", owner |-> "-"]

\* uuid4 values
TaskRowIds == {"t1"}

ExecRowIds == {"e1"}

NoSeen == [id |-> "-", found |-> FALSE]

\* a client sends a registration request
RegisterStart(p) ==
    /\ gpc[p] = "idle"
    /\ \E r \in RegRequests : greq' = [greq EXCEPT ![p] = r]
    /\ gpc' = [gpc EXCEPT ![p] = "check"]
    /\ UNCHANGED <<gresp, gup, skill, versions, artifacts, taskRows, taskEver, wfRows,
                   wfEver, dpc, dver, dresp, gseen, ivars, ovars, rvars>>

\* lines 64-79: the query for an existing skill; when it raises, line 163
\* takes over
RegisterCheck(p) ==
    /\ gpc[p] = "check"
    /\ \E ok \in BOOLEAN :
          IF ~ok
          THEN /\ gpc' = [gpc EXCEPT ![p] = "cleanup"]
               /\ UNCHANGED gresp
          ELSE IF skill.present
          THEN /\ gresp' = [gresp EXCEPT ![p] = RegError("SKILL_REG_001")]
               /\ gpc' = [gpc EXCEPT ![p] = "done"]
          ELSE /\ gpc' = [gpc EXCEPT ![p] = "decode"]
               /\ UNCHANGED gresp
    /\ UNCHANGED <<greq, gup, skill, versions, artifacts, taskRows, taskEver,
                   wfRows, wfEver, dpc, dver, dresp, gseen, ivars, ovars,
                   rvars>>

\* lines 81-95
RegisterDecode(p) ==
    /\ gpc[p] = "decode"
    /\ IF greq[p].valid
       THEN /\ gpc' = [gpc EXCEPT ![p] = "upload"]
            /\ UNCHANGED gresp
       ELSE /\ gresp' = [gresp EXCEPT ![p] = RegError("SKILL_REG_003")]
            /\ gpc' = [gpc EXCEPT ![p] = "done"]
    /\ UNCHANGED <<greq, gup, skill, versions, artifacts, taskRows, taskEver,
                   wfRows, wfEver, dpc, dver, dresp, gseen, ivars, ovars,
                   rvars>>

\* what upload_code (storage.py:82-106) may do: store the object and return
\* its URL; raise with nothing stored; raise although put_object has stored
\* the object (the answer of the server is lost)
UploadOutcomes == {"stored", "failed", "stored_raised"}

\* lines 97-114: the object of (skill_id, version) is written, over one that
\* is there; when upload_code raises the call answers SKILL_REG_999
RegisterUpload(p) ==
    /\ gpc[p] = "upload"
    /\ \E o \in UploadOutcomes :
          /\ IF o = "failed"
             THEN UNCHANGED <<artifacts, gup>>
             ELSE /\ artifacts' = [artifacts EXCEPT ![greq[p].version] = p]
                  /\ gup' = [gup EXCEPT ![p] = TRUE]
          /\ IF o = "stored"
             THEN /\ gpc' = [gpc EXCEPT ![p] = "persist"]
                  /\ UNCHANGED gresp
             ELSE /\ gresp' = [gresp EXCEPT ![p] = RegError("SKILL_REG_999")]
                  /\ gpc' = [gpc EXCEPT ![p] = "done"]
    /\ UNCHANGED <<greq, skill, versions, taskRows, taskEver, wfRows, wfEver,
                   dpc, dver, dresp, gseen, ivars, ovars, rvars>>

\* lines 116-148: the skill row and the version row are committed together;
\* the commit raises when the database fails or a row with the skill_id is
\* there (skills.skill_id is unique, database.py:50)
RegisterPersist(p) ==
    /\ gpc[p] = "persist"
    /\ \E ok \in BOOLEAN :
          IF ok /\ ~skill.present
          THEN /\ skill' = [present |-> TRUE, version |-> greq[p].version,
                            owner |-> p]
               /\ versions' = versions \cup
                      {[version |-> greq[p].version, owner |-> p]}
               /\ gpc' = [gpc EXCEPT ![p] = "refresh"]
          ELSE /\ gpc' = [gpc EXCEPT ![p] = "cleanup"]
               /\ UNCHANGED <<skill, versions>>
    /\ UNCHANGED <<greq, gresp, gup, artifacts, taskRows, taskEver, wfRows,
                   wfEver, dpc, dver, dresp, gseen, ivars, ovars, rvars>>

\* lines 149-159: db.refresh reads the row back, then the call answers
\* success; when the refresh raises, line 163 takes over
RegisterRefresh(p) ==
    /\ gpc[p] = "refresh"
    /\ \E ok \in BOOLEAN :
          IF ok
          THEN /\ gresp' = [gresp EXCEPT
                              ![p] = [status |-> "success", code |-> "none"]]
               /\ gpc' = [gpc EXCEPT ![p] = "done"]
          ELSE /\ gpc' = [gpc EXCEPT ![p] = "cleanup"]
               /\ UNCHANGED gresp
    /\ UNCHANGED <<greq, gup, skill, versions, artifacts, taskRows, taskEver,
                   wfRows, wfEver, dpc, dver, dresp, gseen, ivars, ovars,
                   rvars>>

\* lines 163-180: rollback, then delete_code of (skill_id, version), whose
\* failure is swallowed (storage.py:154-155, line 170), then SKILL_REG_999
RegisterCleanup(p) ==
    /\ gpc[p] = "cleanup"
    /\ \E removed \in BOOLEAN :
          artifacts' = IF removed
                       THEN [artifacts EXCEPT ![greq[p].version] = "none"]
                       ELSE artifacts
    /\ gresp' = [gresp EXCEPT ![p] = RegError("SKILL_REG_999")]
    /\ gpc' = [gpc EXCEPT ![p] = "done"]
    /\ UNCHANGED <<greq, gup, skill, versions, taskRows, taskEver, wfRows,
                   wfEver, dpc, dver, dresp, gseen, ivars, ovars, rvars>>

RegisterSkill(p) ==
    \/ RegisterStart(p)
    \/ RegisterCheck(p)
    \/ RegisterDecode(p)
    \/ RegisterUpload(p)
    \/ RegisterPersist(p)
    \/ RegisterRefresh(p)
    \/ RegisterCleanup(p)

\* delete_skill, lines 194-205: the query; no row is answered 404, a failing
\* query 500 (lines 223-229)
DeleteSkillLookup ==
    /\ dpc \in {"idle", "done"}
    /\ \E ok \in BOOLEAN :
          IF ~ok
          THEN /\ dresp' = "http500"
               /\ dpc' = "done"
               /\ UNCHANGED dver
          ELSE IF ~skill.present
          THEN /\ dresp' = "http404"
               /\ dpc' = "done"
               /\ UNCHANGED dver
          ELSE /\ dresp' = "none"
               /\ dver' = skill.version
               /\ dpc' = "commit"
    /\ UNCHANGED <<gpc, greq, gresp, gup, skill, versions, artifacts,
                   taskRows, taskEver, wfRows, wfEver, gseen, ivars, ovars,
                   rvars>>

\* lines 207-209: db.delete(skill) and the commit.  The relationships
\* versions and executions of Skill cascade "all, delete-orphan"
\* (database.py:81-82): the rows of skill_versions and of skill_executions
\* of the skill are deleted with it
DeleteSkillCommit ==
    /\ dpc = "commit"
    /\ \E ok \in BOOLEAN :
          IF ok
          THEN /\ skill' = NoSkill
               /\ versions' = {}
               /\ taskRows' = {}
               /\ dpc' = "code"
               /\ UNCHANGED dresp
          ELSE /\ dresp' = "http500"
               /\ dpc' = "done"
               /\ UNCHANGED <<skill, versions, taskRows>>
    /\ dver' = IF dpc' = "done" THEN "-" ELSE dver
    /\ UNCHANGED <<gpc, greq, gresp, gup, artifacts, taskEver, wfRows,
                   wfEver, gseen, ivars, ovars, rvars>>

\* what delete_code (storage.py:144-155) may do: remove the object; swallow
\* an S3Error; let any other exception through
DeleteOutcomes == {"removed", "s3error", "raised"}

\* lines 211-219, and 223-229 when delete_code raises
DeleteSkillCode ==
    /\ dpc = "code"
    /\ \E o \in DeleteOutcomes :
          /\ artifacts' = IF o = "removed"
                          THEN [artifacts EXCEPT ![dver] = "none"]
                          ELSE artifacts
          /\ dresp' = IF o = "raised" THEN "http500" ELSE "success"
    /\ dpc' = "done"
    /\ dver' = "-"
    /\ UNCHANGED <<gpc, greq, gresp, gup, skill, versions, taskRows,
                   taskEver, wfRows, wfEver, gseen, ivars, ovars, rvars>>

\* invoke_skill, lines 64-94: the skill is found and the pending row of a
\* new task_id is committed
InvokePending ==
    /\ skill.present
    /\ \E t \in TaskRowIds \ taskEver :
          /\ taskRows' = taskRows \cup {t}
          /\ taskEver' = taskEver \cup {t}
    /\ UNCHANGED <<gpc, greq, gresp, gup, skill, versions, artifacts, wfRows,
                   wfEver, dpc, dver, dresp, gseen, ivars, ovars, rvars>>

\* orchestrate_skills, lines 97-106: the running row of a new execution_id is
\* committed
OrchestrateRunning ==
    /\ \E e \in ExecRowIds \ wfEver :
          /\ wfRows' = wfRows \cup {e}
          /\ wfEver' = wfEver \cup {e}
    /\ UNCHANGED <<gpc, greq, gresp, gup, skill, versions, artifacts,
                   taskRows, taskEver, dpc, dver, dresp, gseen, ivars, ovars,
                   rvars>>

\* get_task_status (skill_invoke.py:203-214): found, or 404
GetTaskStatus(t) ==
    /\ gseen' = [id |-> t, found |-> t \in taskRows]
    /\ UNCHANGED <<gpc, greq, gresp, gup, skill, versions, artifacts,
                   taskRows, taskEver, wfRows, wfEver, dpc, dver, dresp,
                   ivars, ovars, rvars>>

\* get_workflow_status (skill_orchestration.py:423-435): found, or 404
GetWorkflowStatus(e) ==
    /\ gseen' = [id |-> e, found |-> e \in wfRows]
    /\ UNCHANGED <<gpc, greq, gresp, gup, skill, versions, artifacts,
                   taskRows, taskEver, wfRows, wfEver, dpc, dver, dresp,
                   ivars, ovars, rvars>>

InitRegistryVars ==
    /\ gpc = [p \in Registrants |-> "idle"]
    /\ greq = [p \in Registrants |-> NoRegRequest]
    /\ gresp = [p \in Registrants |-> NoRegResponse]
    /\ gup = [p \in Registrants |-> FALSE]
    /\ skill = NoSkill
    /\ versions = {}
    /\ artifacts = [v \in Versions |-> "none"]
    /\ taskRows = {}
    /\ taskEver = {}
    /\ wfRows = {}
    /\ wfEver = {}
    /\ dpc = "idle"
    /\ dver = "-"
    /\ dresp = "none"
    /\ gseen = NoSeen

(***************************************************************************)
(* The state machines.                                                     *)
(***************************************************************************)
InitOrchVars ==
    /\ opc = "off"
    /\ wf = [steps |-> <<>>, mode |-> "sequential"]
    /\ results = NoResults
    /\ queue = <<>>
    /\ completed = {}
    /\ batch = <<>>
    /\ out = <<>>
    /\ one = NoOne
    /\ pos = 1
    /\ started = <<>>
    /\ fin = {}
    /\ oresp = NoOrchResponse
    /\ wfexec = "none"
    /\ sandbox = FALSE
    /\ workflows = {}
    /\ executions = {}

InitInvoke ==
    InitInvokeVars /\ InitOrchVars /\ InitResolveVars /\ InitRegistryVars

NextInvoke ==
    \E t \in TaskIds : InvokeStart(t) \/ Handler(t) \/ GetTask(t)

SpecInvoke == InitInvoke /\ [][NextInvoke]_vars

\* the event loop runs every handler it has started to its return
FairSpecInvoke ==
    SpecInvoke /\ \A t \in TaskIds : WF_vars(Handler(t))

InitOrch ==
    /\ InitInvokeVars
    /\ InitResolveVars
    /\ InitRegistryVars
    /\ opc = "start"
    /\ \E s \in StepLists, m \in Modes :
          /\ wf = [steps |-> s, mode |-> m]
          /\ started = [i \in DOMAIN s |-> NotStarted]
    /\ results = NoResults
    /\ queue = <<>>
    /\ completed = {}
    /\ batch = <<>>
    /\ out = <<>>
    /\ one = NoOne
    /\ pos = 1
    /\ fin = {}
    /\ oresp = NoOrchResponse
    /\ wfexec = "none"
    /\ sandbox = FALSE
    /\ \E earlier \in BOOLEAN :
          /\ workflows = IF earlier THEN {EarlierWorkflow} ELSE {}
          /\ executions = IF earlier THEN {EarlierExecution} ELSE {}

NextOrch ==
    \/ OrchValidate
    \/ OrchPersist
    \/ StartOne
    \/ FinishOne
    \/ StoreOne
    \/ ParCreate
    \/ LoopDone
    \/ DagInit
    \/ DagLaunch
    \/ \E k \in 1..(MaxQueue + MaxSteps) : LookupSlot(k)
    \/ \E k \in 1..(MaxQueue + MaxSteps) : FinishSlot(k)
    \/ ParCollect
    \/ DagCollect
    \/ DagDone
    \/ OrchFinish

SpecOrch == InitOrch /\ [][NextOrch]_vars

(***************************************************************************)
(* orchestrate_skills with the clock running.  now - 1 is the time since   *)
(* start_time (line 67).                                                   *)
(***************************************************************************)
\* SkillOrchestrationRequest.timeout (models.py:270-275); line 93 stores it
\* in the workflows row, and nothing reads it afterwards
WorkflowTimeout == MaxTimeout

\* a clock unit passes while orchestrate_skills is at work; the model follows
\* the clock until the timeout has elapsed
Tick ==
    /\ opc \notin {"off", "done"}
    /\ now <= WorkflowTimeout
    /\ now' = now + 1
    /\ UNCHANGED <<pc, req, start_time, execution, sessionOk, rows, response,
                   result, run, containers, seen, ovars, rvars, gvars>>

NextOrchTimed == NextOrch \/ Tick

SpecOrchTimed == InitOrch /\ [][NextOrchTimed]_vars

(***************************************************************************)
(* One _execute_step, for every input value and every context.             *)
(***************************************************************************)
InitResolve ==
    /\ InitInvokeVars
    /\ InitOrchVars
    /\ InitRegistryVars
    /\ rpc = "lookup"
    /\ rin \in Inputs
    /\ rctx \in Contexts
    /\ rout = NoValue
    /\ rres = "none"

NextResolve == StepLookupSkill \/ StepResolveInputs \/ StepExecuteSkill

SpecResolve == InitResolve /\ [][NextResolve]_vars

(***************************************************************************)
(* The registry: concurrent register_skill calls, delete_skill, and the    *)
(* routes that create and read task rows and workflow-execution rows.      *)
(***************************************************************************)
InitRegistry ==
    InitInvokeVars /\ InitOrchVars /\ InitResolveVars /\ InitRegistryVars

NextRegistry ==
    \/ \E p \in Registrants : RegisterSkill(p)
    \/ DeleteSkillLookup
    \/ DeleteSkillCommit
    \/ DeleteSkillCode
    \/ InvokePending
    \/ OrchestrateRunning
    \/ \E t \in TaskRowIds : GetTaskStatus(t)
    \/ \E e \in ExecRowIds : GetWorkflowStatus(e)

SpecRegistry == InitRegistry /\ [][NextRegistry]_vars

Spec == SpecInvoke

(***************************************************************************)
(* Properties of invoke_skill, execute_skill and get_task_status           *)
(* (checked under SpecInvoke, the liveness one under FairSpecInvoke).      *)
(***************************************************************************)
\* C1: after an asynchronous invoke was answered {status: pending, task_id: t},
\* the task row t eventually reaches success, error or timeout.
C1_AsyncReachesTerminal ==
    \A t \in TaskIds :
        [](response[t].status = "pending" => <>(rows[t].status \in Terminal))

\* the status changes the lifecycle pending -> running -> terminal allows
Lifecycle ==
    {<<"none", "pending">>, <<"pending", "running">>}
        \cup {<<"running", s>> : s \in Terminal}

\* C2: a task row's status changes only along pending -> running ->
\* {success, error, timeout}: running is entered only from pending, a terminal
\* status only from running, and a terminal row is never changed again, on
\* every path of invoke, those with a failing commit or sandbox call included.
C2_StatusLifecycle ==
    [][\A t \in TaskIds :
          /\ rows'[t].status # rows[t].status =>
                <<rows[t].status, rows'[t].status>> \in Lifecycle
          /\ rows[t].status \in Terminal => rows'[t] = rows[t]]_vars

\* C2 happens: a synchronous invoke has returned and its row, which went
\* through running, is terminal
C2_Witness ==
    \E t \in TaskIds :
        /\ pc[t] = "done"
        /\ ~req[t].is_async
        /\ rows[t].status \in Terminal
        /\ rows[t].started_at # 0
        /\ rows[t].completed_at # 0

\* C3: when the container has not exited after timeout clock units,
\* execute_skill returns status timeout and the synchronous invoke ends with
\* the task row in status timeout.
C3_TimeoutEnforced ==
    \A t \in TaskIds :
        (/\ pc[t] = "done"
         /\ run[t].created
         /\ run[t].duration > run[t].timeout
         /\ sessionOk[t])
            => /\ result[t].status = "timeout"
               /\ rows[t].status = "timeout"

Edges(steps) ==
    UNION {{<<steps[i].step_id, steps[i].depends_on[k]>> :
               k \in DOMAIN steps[i].depends_on} : i \in DOMAIN steps}

RECURSIVE ReachFrom(_, _)
ReachFrom(E, S) ==
    LET more == S \cup {e[2] : e \in {x \in E : x[1] \in S}}
    IN  IF more = S THEN S ELSE ReachFrom(E, more)

\* the names id depends on, directly or transitively
TransDeps(steps, id) ==
    ReachFrom(Edges(steps), {e[2] : e \in {x \in Edges(steps) : x[1] = id}})

HasCycle(steps) == \E id \in Ids(steps) : id \in TransDeps(steps, id)

\* some depends_on element names no step of the list
HasUnknownDependency(steps) ==
    \E e \in Edges(steps) : e[2] \notin Ids(steps)

NoStepRan == \A i \in DOMAIN started : ~started[i].ran

\* C5: a workflow whose depends_on graph has a cycle is answered status error
\* with code WORKFLOW_002 in every mode, no step is executed and the sandbox
\* is not called.
C5_CyclicRejected ==
    HasCycle(wf.steps) =>
        /\ NoStepRan
        /\ ~sandbox
        /\ opc = "done" => (oresp.status = "error"
                            /\ oresp.code = "WORKFLOW_002")

\* C6: for every list of steps _check_cyclic_dependencies returns true if and
\* only if the graph step_id -> depends_on of the listed steps has a cycle.
C6_CycleCheckExact ==
    CheckCyclicDependencies(wf.steps) <=> HasCycle(wf.steps)

\* C7: when a workflow execution finishes with status success, every step_id
\* of the definition is a key of results with status success, error or
\* timeout, in every mode.
C7_SuccessHasAllResults ==
    oresp.status = "success" =>
        \A id \in Ids(wf.steps) : oresp.results[id] \in Terminal

\* C8: a workflow with a depends_on element naming no existing step is
\* rejected with status error before any step runs.
C8_UnknownDependencyRejected ==
    HasUnknownDependency(wf.steps) =>
        /\ NoStepRan
        /\ opc = "done" => oresp.status = "error"

\* the names step i depends on: those of its own depends_on and, through the
\* graph, theirs
DependenciesOf(i) == ReachFrom(Edges(wf.steps), Range(Deps(i)))

\* C9: in hybrid mode a step starts only after every step it depends on,
\* directly or transitively, has reached a terminal outcome.
C9_HybridDependenciesFirst ==
    wf.mode = "hybrid" =>
        \A i \in DOMAIN started :
            started[i].ran =>
                \A d \in DependenciesOf(i) \cap Ids(wf.steps) :
                    \E j \in started[i].before : StepId(j) = d

C11_OverallTimeout ==
    now > WorkflowTimeout =>
        /\ \A i \in DOMAIN started :
              started[i].ran => started[i].at <= WorkflowTimeout
        /\ (opc = "done" /\ oresp.execution_id) =>
              (wfexec = "timeout" /\ oresp.status = "timeout")

(***************************************************************************)
(* Further properties of invoke_skill and execute_skill (SpecInvoke).      *)
(***************************************************************************)
\* C12 as stated: an invoke of a skill_id that is not registered is answered
\* status error with code SKILL_001, no task row is created and the sandbox
\* is not called, synchronous or asynchronous.
C12_UnregisteredIsSkill001 ==
    \A t \in TaskIds :
        (pc[t] \in {"return", "done"} /\ req[t].skill_id \notin DOMAIN Catalog)
            => /\ response[t].status = "error"
               /\ response[t].code = "SKILL_001"
               /\ rows[t] = NoRow
               /\ ~run[t].called

\* C12 amended: an invoke of a skill_id that is not registered is answered
\* status error, with code SKILL_001 or, when the catalogue query itself
\* raised, SKILL_999; no task row is ever created for it and the sandbox is
\* never called, synchronous or asynchronous.
C12_UnregisteredRejected ==
    \A t \in TaskIds :
        (pc[t] # "new" /\ req[t].skill_id \notin DOMAIN Catalog)
            => /\ rows[t] = NoRow
               /\ ~run[t].called
               /\ execution[t] = Unbound
               /\ pc[t] \in {"return", "done"} =>
                     /\ response[t].status = "error"
                     /\ response[t].task_id = 0 => response[t].code = "SKILL_001"
                     /\ response[t].code \in {"SKILL_001", "SKILL_999"}

\* C12 happens: an asynchronous invoke of an unregistered skill_id has
\* returned SKILL_001
C12_Witness ==
    \E t \in TaskIds :
        /\ pc[t] = "done"
        /\ req[t].skill_id \notin DOMAIN Catalog
        /\ req[t].is_async
        /\ response[t].code = "SKILL_001"

\* C13: an asynchronous invoke of an existing skill that returns
\* {status: pending, task_id} has not waited for the sandbox, and a task row
\* with that task_id exists in status pending with started_at and
\* completed_at unset.
C13_PendingAcknowledged ==
    \A t \in TaskIds :
        response[t].status = "pending" =>
            /\ req[t].is_async
            /\ req[t].skill_id \in DOMAIN Catalog
            /\ response[t].task_id = t
            /\ ~run[t].called
            /\ rows[t].status = "pending"
            /\ rows[t].started_at = 0
            /\ rows[t].completed_at = 0

\* C13 happens: an asynchronous invoke has returned pending
C13_Witness ==
    \E t \in TaskIds :
        /\ pc[t] = "done"
        /\ req[t].is_async
        /\ response[t].status = "pending"

Min(x, y) == IF x <= y THEN x ELSE y

\* C14: for every synchronous invoke the timeout passed to the sandbox is
\* min(request timeout, the skill's default timeout); it never exceeds the
\* skill's default timeout.
C14_TimeoutIsMin ==
    \A t \in TaskIds :
        run[t].called =>
            run[t].timeout
                = Min(req[t].timeout, Catalog[req[t].skill_id].timeout)

\* C15: a sandbox failure (unsupported language, image pull or container
\* creation failure, crash of the user code) never leaves execute_skill as an
\* exception: the call returns a result whose status is success, error or
\* timeout, and invoke_skill records that status in the task row and answers
\* it.
C15_SandboxFailureStructured ==
    \A t \in TaskIds :
        /\ run[t].returned => result[t].status \in Terminal
        /\ (run[t].called /\ sessionOk[t] /\ pc[t] \in {"return", "done"}) =>
              /\ run[t].returned
              /\ rows[t].status = result[t].status
              /\ response[t].status = result[t].status
              /\ response[t].code = "none"

\* C15 happens: an invoke of a skill in a language _build_command does not
\* support has returned, no container was created, the row says error
C15_Witness ==
    \E t \in TaskIds :
        /\ pc[t] = "done"
        /\ req[t].skill_id \in DOMAIN Catalog
        /\ Catalog[req[t].skill_id].language \notin Buildable
        /\ run[t].returned
        /\ ~run[t].created
        /\ rows[t].status = "error"

\* the same for _execute_step (under SpecOrch): every coroutine of a step ends
\* with a status, which is what results holds for its step_id
StepOutcomeStructured ==
    /\ \A k \in DOMAIN out : out[k] \in {"created", "query", "running"} \cup Terminal
    /\ one.out \in {"none", "running"} \cup Terminal
    /\ \A id \in StepIds : results[id] \in {"none"} \cup Terminal

(***************************************************************************)
(* Further properties of orchestrate_skills (SpecOrch).                    *)
(***************************************************************************)
\* C16: a workflow-execution row is created in status running and is set to
\* a terminal status (success, error or timeout) when the orchestrate call
\* that created it completes: no call returns leaving its row running.
C16_ExecutionRowTerminal ==
    (opc = "done" /\ wfexec # "none") => wfexec \in Terminal

(***************************************************************************)
(* Timestamps of the task row (SpecInvoke).                                *)
(***************************************************************************)
\* C17: a task row in a terminal status has started_at and completed_at set,
\* with started_at <= completed_at; started_at is set exactly when the row
\* enters running (unset while pending) and completed_at exactly when it
\* enters a terminal status (unset while pending or running).
C17_Timestamps ==
    \A t \in TaskIds :
        /\ rows[t].status \in {"none", "pending"} =>
              (rows[t].started_at = 0 /\ rows[t].completed_at = 0)
        /\ rows[t].status = "running" =>
              (rows[t].started_at # 0 /\ rows[t].completed_at = 0)
        /\ rows[t].status \in Terminal =>
              /\ rows[t].started_at # 0
              /\ rows[t].completed_at # 0
              /\ rows[t].started_at <= rows[t].completed_at

\* C17 happens: a row is terminal after a container ran for more than one
\* clock unit
C17_Witness ==
    \E t \in TaskIds :
        /\ rows[t].status \in Terminal
        /\ run[t].duration > 1
        /\ rows[t].started_at < rows[t].completed_at

\* C18: the execution_time reported for a completed task equals
\* completed_at - started_at of its row: the execution_time of the
\* synchronous invoke response equals the one get_task reports afterwards for
\* the same task_id.
C18_ExecutionTimeAgrees ==
    \A t \in TaskIds :
        (pc[t] = "done" /\ response[t].status \in Terminal
                        /\ rows[t].status \in Terminal) =>
            response[t].execution_time = TaskExecutionTime(rows[t])

(***************************************************************************)
(* Properties of _resolve_inputs and _execute_step (SpecResolve).          *)
(***************************************************************************)
\* the strings resolve_value is handed, the values of the map step.inputs,
\* each with what became of it
ScannedPairs ==
    {<<rin.items[k].s, rout.items[k].s>> :
        k \in {j \in DOMAIN rin.items : rin.items[j].kind = "str"}}

Count(str, tk) == Cardinality({k \in DOMAIN str : str[k] = tk})

\* the string with every resolvable placeholder replaced by the text of the
\* field it names, and every other token kept
RECURSIVE Substituted(_, _)
Substituted(str, ctx) ==
    IF str = <<>> THEN <<>>
    ELSE (IF Head(str).ref /\ Resolvable(ctx, Head(str))
          THEN OutputText(ctx[Head(str).step], Head(str).field)
          ELSE <<Head(str)>>) \o Substituted(Tail(str), ctx)

\* no stdout in context holds the text of a placeholder
PlainOutputs(ctx) ==
    \A st \in DOMAIN ctx : \A k \in DOMAIN ctx[st].stdout : ~ctx[st].stdout[k].ref

Resolved == rpc \in {"execute", "done"} /\ rout # NoValue

\* C19: _resolve_inputs replaces a placeholder {{S.F}} only when context[S]
\* exists with status success and its outputs hold the field F; a placeholder
\* naming a missing step, a step in status error or timeout, or a missing
\* field stays in the string as it is, and the step is executed all the same.
C19_OnlyResolvableReplaced ==
    Resolved =>
        /\ \A pr \in ScannedPairs :
              /\ (\A k \in DOMAIN pr[1] : ~Resolvable(rctx, pr[1][k]))
                    => pr[2] = pr[1]
              /\ \A k \in DOMAIN pr[1] :
                    ~Resolvable(rctx, pr[1][k])
                        => Count(pr[2], pr[1][k]) >= Count(pr[1], pr[1][k])
              /\ PlainOutputs(rctx) => pr[2] = Substituted(pr[1], rctx)
        /\ rpc = "done" => rres \in Terminal

\* C19 happens: a step whose input string names a field the successful step
\* a does not have, and the stdout of step b, which ended in error, has been
\* executed
C19_Witness ==
    /\ rpc = "done"
    /\ rres = "success"
    /\ rin = MapValue(StrValue(<<Ref("a", "nope"), Ref("b", "stdout")>>))
    /\ rctx["a"].status = "success"
    /\ rctx["b"].status = "error"
    /\ rout = rin

\* the value with the placeholders of every string in it resolved, at any
\* depth
RECURSIVE DeepResolved(_, _)
DeepResolved(v, ctx) ==
    IF v.kind \in {"map", "list"}
    THEN [v EXCEPT !.items =
             [k \in DOMAIN v.items |-> DeepResolved(v.items[k], ctx)]]
    ELSE ResolveValue(v, ctx)

\* C20: _resolve_inputs traverses lists and maps recursively: a resolvable
\* placeholder in a string at any nesting depth is replaced, and values that
\* are not strings are returned unchanged.
C20_NestedResolved ==
    Resolved => rout = DeepResolved(rin, rctx)

\* the number of placeholders in the strings of a value, at any depth
RECURSIVE PlaceholderCount(_)
PlaceholderCount(v) ==
    IF v.kind \in {"map", "list"}
    THEN IF v.items = <<>> THEN 0 ELSE PlaceholderCount(v.items[1])
    ELSE Len(Matches(v.s))

\* the placeholders of a value are all resolvable in ctx
RECURSIVE AllResolvable(_, _)
AllResolvable(v, ctx) ==
    IF v.kind \in {"map", "list"}
    THEN \A k \in DOMAIN v.items : AllResolvable(v.items[k], ctx)
    ELSE \A k \in DOMAIN v.s : v.s[k].ref => Resolvable(ctx, v.s[k])

\* the value with each resolvable placeholder of its strings replaced by the
\* text of the field it names
RECURSIVE DeepSubstituted(_, _)
DeepSubstituted(v, ctx) ==
    IF v.kind \in {"map", "list"}
    THEN [v EXCEPT !.items =
             [k \in DOMAIN v.items |-> DeepSubstituted(v.items[k], ctx)]]
    ELSE [v EXCEPT !.s = Substituted(v.s, ctx)]

\* C21: _resolve_inputs returns inputs that hold no placeholder unchanged,
\* and for inputs that hold exactly one placeholder {{S.F}}, with context[S]
\* successful and F among its outputs, it returns the inputs with that
\* placeholder replaced by str(outputs[F]).
C21_SinglePlaceholderReplaced ==
    Resolved =>
        /\ PlaceholderCount(rin) = 0 => rout = rin
        /\ (PlaceholderCount(rin) = 1 /\ AllResolvable(rin, rctx))
              => rout = DeepSubstituted(rin, rctx)

(***************************************************************************)
(* Further properties of orchestrate_skills (SpecOrch).                    *)
(***************************************************************************)
\* the keys of results
Entries(res) == {id \in StepIds : res[id] # "none"}

\* _execute_workflow has returned
WorkflowRan == opc = "finish" \/ (opc = "done" /\ wfexec # "none")

\* C22: in parallel mode the steps without depends_on are launched together,
\* none of them after another has completed; a step with depends_on never
\* runs at the same time as any other step; and when the workflow has run,
\* each step has been executed exactly once and results has one entry for
\* each step.
C22_ParallelMode ==
    wf.mode = "parallel" =>
        /\ \A i, j \in DOMAIN started :
              (started[i].ran /\ started[j].ran
                  /\ Deps(i) = <<>> /\ Deps(j) = <<>>)
                  => started[i].before = started[j].before
        /\ \A i, j \in DOMAIN started :
              (i # j /\ started[i].ran /\ started[j].ran /\ Deps(i) # <<>>)
                  => (j \in started[i].before \/ i \in started[j].before)
        /\ WorkflowRan =>
              /\ \A i \in DOMAIN started :
                    started[i].ran /\ ~started[i].again
              /\ Cardinality(Entries(results)) = NSteps

(***************************************************************************)
(* Properties of the registry (SpecRegistry).                              *)
(***************************************************************************)
\* C23: whenever register_skill has answered status error after its upload
\* wrote the code object, fully or partly, the object it wrote for
\* (skill_id, version) is gone from the artifact store, and neither the skill
\* row nor a version row of the request is in the database.
C23_NoOrphanArtifact ==
    \A p \in Registrants :
        (gpc[p] = "done" /\ gresp[p].status = "error" /\ gup[p]) =>
            /\ artifacts[greq[p].version] # p
            /\ ~(skill.present /\ skill.owner = p)
            /\ \A row \in versions : row.owner # p

\* C24: a task row or a workflow-execution row, once created, is never
\* deleted by register_skill, delete_skill, invoke, orchestrate, get_task or
\* get_workflow_status: every id ever created is still found in its table.
C24_RowsPersist ==
    /\ taskEver \subseteq taskRows
    /\ wfEver \subseteq wfRows

(***************************************************************************)
(* Failing steps (SpecOrch).                                               *)
(***************************************************************************)
\* C25: in sequential mode a step that ends with status error (unknown
\* skill, sandbox error, any exception in the step) does not abort the
\* workflow: its outcome is stored in results under its step_id, and when
\* the loop is over every step of the list has been executed.
C25_ErrorDoesNotAbort ==
    /\ [](wf.mode = "sequential" =>
             (WorkflowRan =>
                 \A i \in DOMAIN started : started[i].ran /\ i \in fin))
    /\ [][(wf.mode = "sequential" /\ one.out \in Terminal /\ one' = NoOne)
             => results'[StepId(one.i)] = one.out]_vars

\* C25 happens: the first step of a sequential workflow has ended with
\* status error, the step after it has been executed and the workflow is
\* answered success
C25_Witness ==
    /\ wf.mode = "sequential"
    /\ NSteps >= 2
    /\ \A i \in 2..NSteps : StepId(i) # StepId(1)
    /\ results[StepId(1)] = "error"
    /\ started[2].ran
    /\ 2 \in fin
    /\ oresp.status = "success"

\* C26: in hybrid mode a dependency that ended with status error or timeout
\* does not keep its dependents from running: between two rounds, a step
\* whose depends_on names only steps with a terminal outcome in results has
\* been queued or started, and a step that runs finds the outcome of each
\* name of its depends_on, failed or not, in its context.
C26_FailedDependencyRuns ==
    wf.mode = "hybrid" =>
        /\ opc = "dag_loop" =>
              \A i \in DOMAIN started :
                  (Deps(i) # <<>>
                      /\ \A d \in Range(Deps(i)) : results[d] \in Terminal)
                      => (started[i].ran \/ i \in Range(queue))
        /\ \A i \in DOMAIN started :
              started[i].ran =>
                  \A d \in Range(Deps(i)) : started[i].ctx[d] \in Terminal

\* C27: in hybrid mode the steps of a layer are started together, and while
\* the layer runs the results dict, which is the context of each of them,
\* stays as it was when they started: it holds outcomes stored after
\* earlier layers only, none of a sibling.
C27_SiblingsUnobserved ==
    (wf.mode = "hybrid" /\ opc = "gather_hybrid") =>
        \A k \in DOMAIN batch :
            /\ started[batch[k]].ran
            /\ started[batch[k]].ctx = results
            /\ started[batch[k]].before = started[batch[1]].before

\* C27 happens: of two steps of one layer the first has completed, the
\* second is still running, and results does not hold the first's outcome
C27_Witness ==
    /\ wf.mode = "hybrid"
    /\ opc = "gather_hybrid"
    /\ Len(batch) >= 2
    /\ StepId(batch[1]) # StepId(batch[2])
    /\ out[1] \in Terminal
    /\ out[2] = "running"
    /\ results[StepId(batch[1])] = "none"

(***************************************************************************)
(* Further properties of _resolve_inputs (SpecResolve).                    *)
(***************************************************************************)
\* C28: the placeholders of a string are all replaced in one pass, and text
\* that was substituted is not resolved again: the result is the string with
\* each resolvable placeholder of the original replaced by its value, a value
\* that reads {{T.G}} staying as it is even when {{T.G}} is a resolvable
\* placeholder of the original string too.
C28_OnePass ==
    Resolved =>
        \A pr \in ScannedPairs : pr[2] = Substituted(pr[1], rctx)

(***************************************************************************)
(* Rejected workflows (SpecOrch).                                          *)
(***************************************************************************)
\* C29: orchestrate on a workflow with an empty list of steps is answered
\* status error with an error code; no step is executed, the sandbox is not
\* called and no workflow-execution row is created.
C29_EmptyWorkflowRejected ==
    wf.steps = <<>> =>
        /\ opc \in {"start", "done"}
        /\ NoStepRan
        /\ ~sandbox
        /\ wfexec = "none"
        /\ opc = "done" =>
              /\ oresp.status = "error"
              /\ oresp.code # "none"
              /\ ~oresp.execution_id

\* C29 happens: the call on an empty list of steps has been answered
C29_Witness ==
    /\ wf.steps = <<>>
    /\ opc = "done"
    /\ oresp.code = "WORKFLOW_999"

(***************************************************************************)
(* Languages (SpecInvoke).                                                 *)
(***************************************************************************)
\* C30: for a skill of any of the five languages of the enum the runner has
\* an image and a startup command, so execute_skill goes on to launch the
\* container: it does not end before the launch with an error result.
C30_EveryLanguageLaunches ==
    [][\A t \in TaskIds :
          (pc[t] = "execute" /\ pc'[t] # "execute"
              /\ req[t].skill_id \in DOMAIN Catalog
              /\ Catalog[req[t].skill_id].language \in Languages)
              => pc'[t] = "to_thread"]_vars

(***************************************************************************)
(* Duplicate and concurrent registrations (SpecRegistry).                  *)
(***************************************************************************)
\* client p takes a step of its register_skill call
RegisterStep(p) == gpc[p] # "idle" /\ gpc'[p] # gpc[p]

\* C31: register_skill with a skill_id that is registered when the call
\* looks it up answers status error with code SKILL_REG_001, whether or not
\* its code decodes, and a call that has uploaded nothing changes neither
\* the artifacts nor the skill row nor the version rows of a registered
\* skill.
C31_DuplicateChangesNothing ==
    /\ [][\A p \in Registrants :
             (skill.present /\ gpc[p] = "check" /\ RegisterStep(p))
                 => /\ gpc'[p] = "done"
                    /\ gresp'[p] = RegError("SKILL_REG_001")]_vars
    /\ [][\A p \in Registrants :
             (skill.present /\ ~gup[p] /\ RegisterStep(p))
                 => UNCHANGED <<skill, versions, artifacts>>]_vars

\* C32: under concurrent register_skill calls for one skill_id and version
\* the cleanup of the call that lost the race, after its own upload, leaves
\* the artifact of the persisted skill row in the store.
C32_LoserKeepsWinnersArtifact ==
    [][\A p \in Registrants :
          (gpc[p] = "cleanup" /\ RegisterStep(p) /\ gup[p]
              /\ skill.present /\ skill.owner # p
              /\ artifacts[skill.version] # "none")
              => artifacts'[skill.version] # "none"]_vars

(***************************************************************************)
(* The hybrid scheduler and the parallel loop (SpecOrch).                  *)
(***************************************************************************)
UniqueIds == \A i, j \in DOMAIN wf.steps : i # j => StepId(i) # StepId(j)

\* C33: in hybrid mode no step of an acyclic workflow is started a second
\* time within one orchestrate call, also when a depends_on list names one
\* step_id more than once.
C33_AtMostOnce ==
    (wf.mode = "hybrid" /\ UniqueIds /\ ~HasCycle(wf.steps)) =>
        \A i \in DOMAIN started : ~started[i].again

\* the steps that declare depends_on, among the first n
Dependents(n) == {j \in 1..n : Deps(j) # <<>>}

\* C34: in parallel mode the steps that declare depends_on run one at a
\* time, in declaration order, each to completion, before any step without
\* depends_on starts; the context of a step with depends_on holds the
\* outcomes of the steps with depends_on declared before it and nothing
\* else.
C34_DependentsFirst ==
    wf.mode = "parallel" =>
        \A i \in DOMAIN started :
            started[i].ran =>
                IF Deps(i) # <<>>
                THEN /\ started[i].before = Dependents(i - 1)
                     /\ Entries(started[i].ctx)
                            = {StepId(j) : j \in Dependents(i - 1)}
                ELSE Dependents(NSteps) \subseteq started[i].before

\* C34 happens: a parallel workflow declares a step without depends_on
\* before a step with, and the first has started after the second completed
C34_Witness ==
    /\ wf.mode = "parallel"
    /\ NSteps >= 2
    /\ Deps(1) = <<>>
    /\ Deps(2) # <<>>
    /\ StepId(1) # StepId(2)
    /\ started[1].ran
    /\ 2 \in started[1].before
    /\ Entries(started[2].ctx) = {}

(***************************************************************************)
(* C35: the status of a workflow execution does not depend on the steps'   *)
(* outcomes.  When orchestrate_skills has returned, the answer is success  *)
(* or error; a success answer carries the collected results, whatever they *)
(* are, and its execution row is success; an error answer is that of a     *)
(* failed precondition (no steps, a cycle) or of an exception raised       *)
(* outside the steps (a commit), never that of a step, and its execution   *)
(* row is not success.                                                     *)
(***************************************************************************)
C35_StatusIndependentOfSteps ==
    opc = "done" =>
        /\ oresp.status \in {"success", "error"}
        /\ oresp.status = "success" =>
               /\ wfexec = "success"
               /\ oresp.results = results
        /\ oresp.status = "error" =>
               /\ oresp.details \in {"ValueError", "cycle", "commit"}
               /\ wfexec # "success"

\* a workflow of two or more steps, all of which failed, is answered success
C35_Witness ==
    /\ opc = "done"
    /\ Cardinality(Ids(wf.steps)) >= 2
    /\ \A i \in DOMAIN wf.steps : results[wf.steps[i].step_id] = "error"
    /\ oresp.status = "success"
    /\ wfexec = "success"

(***************************************************************************)
(* C36: an invoke response that carries a task_id refers to a row of the   *)
(* store: when the handler has returned a response with a task_id, the     *)
(* execution row of that task exists, so get_task_status finds it.         *)
(***************************************************************************)
C36_TaskIdHasRow ==
    \A t \in TaskIds :
        (pc[t] \in {"return", "done"} /\ response[t].task_id # 0)
            => rows[t].status # "none"

C38_OneQueryInFlight ==
    UniqueIds => Cardinality({k \in DOMAIN out : out[k] = "query"}) <= 1

(***************************************************************************)
(* The hybrid scheduler alone: one orchestrate call in hybrid mode for     *)
(* every acyclic workflow of up to MaxDagSteps steps whose depends_on      *)
(* elements all name steps of the list, no name twice in one depends_on.   *)
(***************************************************************************)
DagRecs == [step_id : StepIds, depends_on : DepLists \ {<<"a", "a">>}]

DagLists ==
    {s \in UNION {[1..n -> DagRecs] : n \in 1..MaxDagSteps} :
        ~HasCycle(s) /\ ~HasUnknownDependency(s)}

InitDag ==
    /\ InitInvokeVars
    /\ InitResolveVars
    /\ InitRegistryVars
    /\ opc = "start"
    /\ \E s \in DagLists :
          /\ wf = [steps |-> s, mode |-> "hybrid"]
          /\ started = [i \in DOMAIN s |-> NotStarted]
    /\ results = NoResults
    /\ queue = <<>>
    /\ completed = {}
    /\ batch = <<>>
    /\ out = <<>>
    /\ one = NoOne
    /\ pos = 1
    /\ fin = {}
    /\ oresp = NoOrchResponse
    /\ wfexec = "none"
    /\ sandbox = FALSE
    /\ workflows = {}
    /\ executions = {}

NextDag ==
    \/ OrchValidate
    \/ OrchPersist
    \/ DagInit
    \/ DagLaunch
    \/ \E k \in 1..(MaxQueue + MaxDagSteps) : LookupSlot(k)
    \/ \E k \in 1..(MaxQueue + MaxDagSteps) : FinishSlot(k)
    \/ DagCollect
    \/ DagDone
    \/ OrchFinish

SpecDag == InitDag /\ [][NextDag]_vars

(***************************************************************************)
(* C39: for an acyclic workflow whose depends_on elements all name steps   *)
(* of the list the hybrid scheduler ends with every step executed: when    *)
(* _execute_dag has found its queue empty and returned, each step of the   *)
(* workflow has been started.                                              *)
(***************************************************************************)
C39_EveryStepExecuted ==
    (/\ wf.mode = "hybrid"
     /\ ~HasCycle(wf.steps)
     /\ ~HasUnknownDependency(wf.steps)
     /\ opc = "finish")
        => \A i \in DOMAIN started : started[i].ran
====
